---- MODULE Spec2Model ----
(***************************************************************************)
(* Token lifecycle and pagination of RobinhoodClient (api/client.ts) with  *)
(* the RobinhoodService wrappers that turn client failures into            *)
(* StandardizedError codes (services/robinhood-service.ts).                *)
(*                                                                         *)
(* Every request of the client goes through one axios instance, so the     *)
(* request and response interceptors also run for the authentication POST  *)
(* and for the token-refresh POST.  A caller operation is therefore a      *)
(* stack of requests: the caller's own request at the bottom and, above    *)
(* it, the refresh requests started by the 401 handler of the request      *)
(* below.  Only the top request is on the wire; the others await the       *)
(* refresh above them.  Several caller operations may be in flight at      *)
(* once (one per slot); the upstream answers them in any order.  Spec is   *)
(* the token lifecycle under concurrent callers, SpecPaginate one caller   *)
(* paginating a resource, SpecService the data operations of               *)
(* RobinhoodService over the raw layer (every raw call is a request of the *)
(* client), SpecMapper the numeric fields computed by PortfolioMapper and  *)
(* SpecRecord the descriptive fields of the records it returns.            *)
(***************************************************************************)
EXTENDS Integers, Sequences, FiniteSets, TLC

\* ---------------------------------------------------------------- bounds
NumOps == 2          \* caller operations that may be in flight together
MaxCalls == 3        \* caller operations started in one behaviour
MaxTokens == 2       \* token values ever issued or pre-seeded
MaxFaults == 2       \* error responses the upstream gives in one behaviour
MaxUrl == 3          \* distinct page URLs of a paginated resource
MaxPageSize == 1     \* elements of one page
MaxElems == 2        \* elements of a collection the service fetches
MaxAmount == 2       \* largest value of a decimal string given to the mapper

\* ------------------------------------------------------ program constants
Unauthorized == 401
BadRequest == 400
DefaultLimit == 100

Slots == 1..NumOps
\* upstream elements: two values, enough to tell order and repetition
Items == {1, 2}
\* 0 stands for "no response" (a network error: error.response undefined)
ErrorStatuses == {0, BadRequest, Unauthorized, 500}

VARIABLES
    authTokens,   \* RobinhoodClient.authTokens (defined = FALSE: undefined)
    ops,          \* the caller operations, one per slot
    nextTok,      \* next unused token value
    faults,       \* error responses given so far
    calls,        \* caller operations started so far
    ev            \* the event of the last step (call, upstream answer, ...)

vars == <<authTokens, ops, nextTok, faults, calls, ev>>

\* ------------------------------------------------------------ token state
\* AuthTokens; '' and a missing field are both 0
Undefined == [defined |-> FALSE, accessToken |-> 0, refreshToken |-> 0]

\* a TokenSet as the upstream issues it: both tokens present
TokenSet(n) == [defined |-> TRUE, accessToken |-> n, refreshToken |-> n]

setAuthToken(accessToken) ==
    [defined |-> TRUE, accessToken |-> accessToken, refreshToken |-> 0]

isAuthenticated(tokens) == tokens.defined /\ tokens.accessToken # 0

getAuthTokens == authTokens

\* this.authTokens?.refreshToken is truthy
hasRefreshToken(tokens) == tokens.defined /\ tokens.refreshToken # 0

\* ---------------------------------------------------------------- errors
NoError == [msg |-> "", status |-> 0, mfa |-> FALSE, depth |-> 0, replay |-> FALSE]

\* the AxiosError of the request at `depth` of the stack (replay: it was a
\* re-issued request); mfa: the response body has mfa_required true
AxiosError(status, mfa, depth, replay) ==
    [msg |-> "axios", status |-> status, mfa |-> mfa, depth |-> depth, replay |-> replay]

MfaRequiredError ==
    [msg |-> "MFA_REQUIRED", status |-> 0, mfa |-> FALSE, depth |-> 0, replay |-> FALSE]

NoRefreshTokenError ==
    [msg |-> "No refresh token available", status |-> 0, mfa |-> FALSE,
     depth |-> 0, replay |-> FALSE]

\* -------------------------------------------------------------- requests
\* mutant: a header the config already carries is kept
requestInterceptor_keepsHeader(header, tokens) ==
    IF header # 0 THEN header
    ELSE IF tokens.defined /\ tokens.accessToken # 0 THEN tokens.accessToken ELSE header

\* request interceptor: the Authorization header of the outgoing config
\* (0: none), given the header the config already carries
requestInterceptor(header, tokens) ==
    IF tokens.defined /\ tokens.accessToken # 0 THEN tokens.accessToken ELSE header

\* a request put on the wire for the first time. held: the access token the
\* client holds at that moment; body: the refresh_token of a refresh POST
NewRequest(kind, url, tokens) ==
    [kind |-> kind, url |-> url, retry |-> FALSE,
     hdr |-> requestInterceptor(0, tokens), orig |-> requestInterceptor(0, tokens),
     held |-> tokens.accessToken,
     body |-> IF kind = "refresh" THEN tokens.refreshToken ELSE 0]

\* this.axios(originalRequest): the same config goes through the request
\* interceptor again
Reissue(request, tokens) ==
    [request EXCEPT !.retry = TRUE,
                    !.hdr = requestInterceptor(request.hdr, tokens),
                    !.held = tokens.accessToken]

\* mutant: the _retry flag of the request is not consulted
responseInterceptor_ignoresRetry(status, retry, tokens) ==
    IF status = Unauthorized /\ hasRefreshToken(tokens) THEN "refresh" ELSE "reject"

\* mutant: every status from 401 upwards starts the refresh
responseInterceptor_anyStatus(status, retry, tokens) ==
    IF status >= Unauthorized /\ ~retry /\ hasRefreshToken(tokens)
    THEN "refresh"
    ELSE "reject"

\* mutant: the handler does not look for a refresh token
responseInterceptor_noGuard(status, retry, tokens) ==
    IF status = Unauthorized /\ ~retry THEN "refresh" ELSE "reject"

\* mutant: a 401 is never answered with a refresh
responseInterceptor_rejects(status, retry, tokens) == "reject"

\* response interceptor, error branch: refresh and replay, or reject
responseInterceptor(status, retry, tokens) ==
    IF status = Unauthorized /\ ~retry /\ hasRefreshToken(tokens)
    THEN "refresh"
    ELSE "reject"

\* ------------------------------------------------------------- pagination
RECURSIVE SeqsUpTo(_, _)
SeqsUpTo(S, n) ==
    IF n = 0 THEN {<<>>}
    ELSE LET shorter == SeqsUpTo(S, n - 1)
         IN shorter \cup {Append(s, x) : s \in shorter, x \in S}

\* the decoded bodies the resource may serve at page URL u: an envelope
\* {results, next}, a bare array, or a single object (self), which may
\* itself carry a next field; next links point forward (0: null)
NextLinks(u) == {0} \cup {v \in 1..MaxUrl : v > u}

Bodies(u) ==
    [kind : {"envelope"}, results : SeqsUpTo(Items, MaxPageSize),
     next : NextLinks(u), self : {0}]
    \cup [kind : {"array"}, results : SeqsUpTo(Items, MaxPageSize),
          next : {0}, self : {0}]
    \cup [kind : {"object"}, results : {<<>>}, next : NextLinks(u), self : Items]

\* mutant: a page is put in front of the results gathered so far
paginatePush_front(results, response) ==
    IF response.kind = "envelope" THEN response.results \o results
    ELSE IF response.kind = "array" THEN response.results \o results
    ELSE <<response.self>> \o results

\* loop body of paginate: what one decoded body adds to results
paginatePush(results, response) ==
    IF response.kind = "envelope" THEN results \o response.results
    ELSE IF response.kind = "array" THEN results \o response.results
    ELSE Append(results, response.self)

\* nextUrl = response.next || null
paginateNext(response) == response.next

\* ----------------------------------------------------- caller operations
\* an operation of the caller. Client level: stack (the requests it has in
\* flight, the one on the wire last), err, ret, results/nextUrl (paginate)
\* and counters of what it sent. Service level: pc (the raw call awaited),
\* url (its resource), arg, src (the upstream collection), idx (the loop
\* position), inst (the instrument just looked up), account (accounts[0]),
\* out (the standardized result), null (resolved with null), code/source
\* (the StandardizedError), answers (how each raw call settled), upstream
\* (the collection the first raw call returned), join (Promise.all).
IdleOp ==
    [op |-> "none", status |-> "idle", stack |-> <<>>, err |-> NoError, code |-> "",
     ret |-> Undefined, results |-> <<>>, nextUrl |-> 0,
     wire |-> 0, sends |-> 0, refreshes |-> 0, refreshOK |-> FALSE,
     gets |-> 0, urls |-> <<>>, served |-> <<>>,
     source |-> "", pc |-> "", url |-> 0, arg |-> 0, src |-> <<>>, idx |-> 0,
     inst |-> 0, account |-> 0, out |-> <<>>, null |-> FALSE, answers |-> <<>>,
     upstream |-> <<>>, join |-> ""]

\* an operation that starts by sending `request`
StartOp(op, request) ==
    [IdleOp EXCEPT !.op = op, !.status = "inflight", !.stack = <<request>>,
                   !.wire = 1, !.sends = 1]

\* mutant: every 400 is taken for an MFA challenge
authenticateCatch_any400(error) ==
    IF error.msg = "axios" /\ error.status = BadRequest
    THEN MfaRequiredError
    ELSE error

\* RobinhoodClient.authenticate, catch block
authenticateCatch(error) ==
    IF error.msg = "axios" /\ error.status = BadRequest /\ error.mfa
    THEN MfaRequiredError
    ELSE error

\* RobinhoodService.authenticate, catch block: the StandardizedError code
serviceAuthenticateCode(error) ==
    IF error.msg = "MFA_REQUIRED" THEN "MFA_REQUIRED" ELSE "AUTH_FAILED"

\* RobinhoodService.refreshToken, catch block
serviceRefreshTokenCode(error) == "TOKEN_REFRESH_FAILED"

\* RobinhoodService.createStandardizedError
createStandardizedError(code) == [code |-> code, source |-> "robinhood"]

\* the operation o rejected with `error` thrown by its bottom request; the
\* operations of the client reject with that error, those of the service
\* with a StandardizedError
Rejected(o, error) ==
    LET thrown == IF o.op = "authenticate" THEN authenticateCatch(error) ELSE error
        code == IF o.op = "authenticate" THEN serviceAuthenticateCode(thrown)
                ELSE IF o.op = "refreshToken" THEN serviceRefreshTokenCode(thrown)
                ELSE ""
    IN [o EXCEPT !.status = "rejected", !.stack = <<>>, !.err = thrown,
                 !.code = code,
                 !.source = IF code # "" THEN createStandardizedError(code).source
                            ELSE ""]

\* mutant: the catch of the 401 handler does not discard the TokenSet
tokensAfterFailure_keeps(d, tokens) == tokens

\* the token state after the request on top of a stack of depth d failed:
\* the catch of the 401 handler below it discards the TokenSet
tokensAfterFailure(d, tokens) == IF d >= 2 THEN Undefined ELSE tokens

\* mutant: authenticate returns without storing the response
authenticateStore_skips(data) == authTokens

\* authenticate: this.authTokens = response.data
authenticateStore(data) == data

\* refreshAccessToken: this.authTokens = response.data
refreshStore(data) == data

\* mutant: the guard looks at the access token
refreshAccessTokenThrows_accessToken(tokens) ==
    ~(tokens.defined /\ tokens.accessToken # 0)

\* refreshAccessToken: the guard that throws 'No refresh token available'
refreshAccessTokenThrows(tokens) == ~(tokens.defined /\ tokens.refreshToken # 0)

\* the event of a step: its type, the slot it belongs to and, for an upstream
\* answer, the status, the mfa_required flag of the body and the token value
\* of the TokenSet in the body (0: none)
Event(type, slot, status, mfa, data) ==
    [type |-> type, slot |-> slot, status |-> status, mfa |-> mfa, data |-> data]

\* ------------------------------------------------------------------ Init
Init ==
    /\ authTokens = Undefined
    /\ ops = [i \in Slots |-> IdleOp]
    /\ nextTok = 1
    /\ faults = 0
    /\ calls = 0
    /\ ev = Event("init", 0, 0, FALSE, 0)

\* a settled operation keeps its outcome for one step, until the caller has
\* taken it; its slot is then free again
Taken == [i \in Slots |-> IF ops[i].status \in {"resolved", "rejected"}
                          THEN IdleOp ELSE ops[i]]

\* the caller's operations are interchangeable: a new one takes the lowest
\* free slot
CanCall(i) ==
    /\ Taken[i].status = "idle"
    /\ \A j \in Slots : j < i => Taken[j].status # "idle"
    /\ calls < MaxCalls

\* client.get / post / put / delete: one request through the axios instance
CallGet(i) ==
    /\ CanCall(i)
    /\ ops' = [Taken EXCEPT ![i] = StartOp("get", NewRequest("get", 0, authTokens))]
    /\ calls' = calls + 1
    /\ ev' = Event("call", i, 0, FALSE, 0)
    /\ UNCHANGED <<authTokens, nextTok, faults>>

\* RobinhoodService.authenticate -> RobinhoodClient.authenticate: the POST
CallAuthenticate(i) ==
    /\ CanCall(i)
    /\ ops' = [Taken EXCEPT ![i] =
                  StartOp("authenticate", NewRequest("auth", 0, authTokens))]
    /\ calls' = calls + 1
    /\ ev' = Event("call", i, 0, FALSE, 0)
    /\ UNCHANGED <<authTokens, nextTok, faults>>

\* RobinhoodService.refreshToken -> RobinhoodClient.refreshAccessToken
CallRefreshToken(i) ==
    /\ CanCall(i)
    /\ IF ~refreshAccessTokenThrows(authTokens)
       THEN /\ ops' = [Taken EXCEPT ![i] =
                         StartOp("refreshToken", NewRequest("refresh", 0, authTokens))]
            /\ authTokens' = authTokens
       ELSE /\ ops' = [Taken EXCEPT ![i] =
                         Rejected([IdleOp EXCEPT !.op = "refreshToken"],
                                  NoRefreshTokenError)]
            /\ authTokens' = authTokens
    /\ calls' = calls + 1
    /\ ev' = Event("call", i, 0, FALSE, 0)
    /\ UNCHANGED <<nextTok, faults>>

\* RobinhoodClient.paginate(url): the first GET of the loop
CallPaginate(i) ==
    /\ CanCall(i)
    /\ ops' = [Taken EXCEPT ![i] =
                  [StartOp("paginate", NewRequest("get", 1, authTokens))
                      EXCEPT !.nextUrl = 1, !.gets = 1, !.urls = <<1>>]]
    /\ calls' = calls + 1
    /\ ev' = Event("call", i, 0, FALSE, 0)
    /\ UNCHANGED <<authTokens, nextTok, faults>>

\* RobinhoodClient.setAuthToken (also the constructor with config.accessToken)
SetAuthToken ==
    /\ nextTok <= MaxTokens
    /\ \E a \in {0, nextTok} :
          /\ authTokens' = setAuthToken(a)
          /\ nextTok' = IF a = 0 THEN nextTok ELSE nextTok + 1
    /\ ev' = Event("setAuthToken", 0, 0, FALSE, 0)
    /\ ops' = Taken
    /\ UNCHANGED <<faults, calls>>

\* ------------------------------------------------------ upstream answers
\* the refresh request on top of the stack (depth d >= 2) succeeded:
\* refreshAccessToken stores the TokenSet and the 401 handler of the
\* request below re-issues that request
RefreshedAndReplayed(o, data) ==
    LET d == Len(o.stack)
    IN [o EXCEPT !.stack = Append(SubSeq(o.stack, 1, d - 2),
                                  Reissue(o.stack[d - 1], refreshStore(data))),
                 !.wire = @ + 1,
                 !.sends = IF d = 2 THEN @ + 1 ELSE @,
                 !.refreshes = IF d > 2 THEN @ + 1 ELSE @,
                 !.refreshOK = IF d = 2 THEN TRUE ELSE @]

\* a 2xx answer to the top request of slot i
RespondOK(i) ==
    /\ ops[i].status = "inflight"
    /\ LET o == ops[i]
           d == Len(o.stack)
           top == o.stack[d]
       IN IF top.kind \in {"auth", "refresh"}
          THEN /\ nextTok <= MaxTokens
               /\ nextTok' = nextTok + 1
               /\ authTokens' = IF top.kind = "auth"
                                THEN authenticateStore(TokenSet(nextTok))
                                ELSE refreshStore(TokenSet(nextTok))
               /\ ops' = [Taken EXCEPT ![i] =
                            IF d >= 2
                            THEN RefreshedAndReplayed(o, TokenSet(nextTok))
                            ELSE [o EXCEPT !.status = "resolved", !.stack = <<>>,
                                           !.ret = authTokens']]
          ELSE /\ UNCHANGED <<authTokens, nextTok>>
               /\ IF o.op = "paginate"
                  THEN \E response \in Bodies(top.url) :
                         LET results == paginatePush(o.results, response)
                             nextUrl == paginateNext(response)
                             seen == [o EXCEPT !.results = results,
                                               !.nextUrl = nextUrl,
                                               !.served = Append(@, response)]
                         IN ops' = [Taken EXCEPT ![i] =
                                IF nextUrl # 0
                                THEN [seen EXCEPT
                                        !.stack = <<NewRequest("get", nextUrl, authTokens)>>,
                                        !.wire = @ + 1, !.sends = 1, !.gets = @ + 1,
                                        !.urls = Append(@, nextUrl)]
                                ELSE [seen EXCEPT !.status = "resolved", !.stack = <<>>]]
                  ELSE ops' = [Taken EXCEPT ![i] =
                                 [o EXCEPT !.status = "resolved", !.stack = <<>>]]
    /\ ev' = Event("response", i, 200, FALSE,
                   IF ops[i].stack[Len(ops[i].stack)].kind \in {"auth", "refresh"}
                   THEN nextTok ELSE 0)
    /\ UNCHANGED <<faults, calls>>

\* an error answer (or no answer) to the top request of slot i
RespondError(i) ==
    /\ ops[i].status = "inflight"
    /\ faults < MaxFaults
    /\ \E status \in ErrorStatuses, mfa \in BOOLEAN :
         LET o == ops[i]
             d == Len(o.stack)
             top == o.stack[d]
         IN /\ mfa => (status = BadRequest /\ top.kind = "auth")
            /\ IF responseInterceptor(status, top.retry, authTokens) = "refresh"
               THEN /\ ops' = [Taken EXCEPT ![i] =
                          [o EXCEPT !.stack = Append([o.stack EXCEPT ![d].retry = TRUE],
                                                     NewRequest("refresh", 0, authTokens)),
                                    !.wire = @ + 1,
                                    !.refreshes = @ + 1]]
                    /\ authTokens' = authTokens
               ELSE /\ ops' = [Taken EXCEPT ![i] =
                          Rejected(o, AxiosError(status, mfa, d, top.retry))]
                    /\ authTokens' = tokensAfterFailure(d, authTokens)
            /\ ev' = Event("response", i, status, mfa, 0)
    /\ faults' = faults + 1
    /\ UNCHANGED <<nextTok, calls>>

Next ==
    \/ \E i \in Slots : CallGet(i)
    \/ \E i \in Slots : CallAuthenticate(i)
    \/ \E i \in Slots : CallRefreshToken(i)
    \/ SetAuthToken
    \/ \E i \in Slots : RespondOK(i)
    \/ \E i \in Slots : RespondError(i)
Spec == Init /\ [][Next]_vars

NextPaginate ==
    \/ CallAuthenticate(1)
    \/ CallPaginate(1)
    \/ RespondOK(1)
    \/ RespondError(1)
SpecPaginate == Init /\ [][NextPaginate]_vars

\* ------------------------------------------------------------ raw layer
\* RobinhoodAPI: the client method each raw call goes through, its HTTP
\* method and its endpoint
RobinhoodAPI ==
    [getAccounts           |-> [via |-> "paginate", method |-> "GET", endpoint |-> "/accounts/"],
     getPortfolio          |-> [via |-> "get", method |-> "GET", endpoint |-> "/accounts/id/portfolio/"],
     getPositions          |-> [via |-> "paginate", method |-> "GET", endpoint |-> "/positions/?nonzero=true"],
     getInstrumentBySymbol |-> [via |-> "get", method |-> "GET", endpoint |-> "/instruments/?symbol="],
     getInstrumentFromUrl  |-> [via |-> "get", method |-> "GET", endpoint |-> "url"],
     getQuote              |-> [via |-> "get", method |-> "GET", endpoint |-> "/quotes/symbol/"],
     getQuotes             |-> [via |-> "get", method |-> "GET", endpoint |-> "/quotes/?symbols="],
     getOrders             |-> [via |-> "paginate", method |-> "GET", endpoint |-> "/orders/"],
     placeOrder            |-> [via |-> "post", method |-> "POST", endpoint |-> "/orders/"],
     cancelOrder           |-> [via |-> "post", method |-> "POST", endpoint |-> "/orders/id/cancel/"],
     getHistoricals        |-> [via |-> "get", method |-> "GET", endpoint |-> "/quotes/historicals/symbol/"],
     getWatchlists         |-> [via |-> "paginate", method |-> "GET", endpoint |-> "/watchlists/"],
     getDividends          |-> [via |-> "paginate", method |-> "GET", endpoint |-> "/dividends/"]]

\* the HTTP method and the endpoint of a request of the client: the POSTs of
\* authenticate and refreshAccessToken, else those of the raw call
methodOf(request) ==
    IF request.kind \in {"auth", "refresh"} THEN "POST"
    ELSE RobinhoodAPI[request.kind].method

endpointOf(request) ==
    IF request.kind = "auth" THEN "/api-token-auth/"
    ELSE IF request.kind = "refresh" THEN "/oauth/token/"
    ELSE RobinhoodAPI[request.kind].endpoint

\* the brokerage's records are numbered; position p references instrument p
\* and is held in account p (RobinhoodPosition.instrument / .accountNumber),
\* and so do order p and dividend p; the symbol of instrument s is s
instrumentOf(element) == element

accountNumberOf(position) == position

\* no element occurs twice in s
NoRepeat(s) == \A a, b \in 1..Len(s) : a # b => s[a] # s[b]

\* the decoded bodies the brokerage may serve for a raw call on resource
\* url: a collection comes in one page (as an envelope or a bare array; the
\* quotes list also as an object without results; an account is listed
\* once), an instrument search as
\* an envelope with the instrument or with nothing, a single resource as
\* the object asked for
ServiceBodies(call, url) ==
    IF call = "getAccounts"
    THEN [kind : {"envelope", "array"},
          results : {s \in SeqsUpTo(Items, MaxElems) : NoRepeat(s)},
          next : {0}, self : {0}]
    ELSE IF RobinhoodAPI[call].via = "paginate"
    THEN [kind : {"envelope", "array"}, results : SeqsUpTo(Items, MaxElems),
          next : {0}, self : {0}]
    ELSE IF call = "getQuotes"
    THEN [kind : {"envelope"}, results : SeqsUpTo(Items, MaxElems),
          next : {0}, self : {0}]
         \cup [kind : {"object"}, results : {<<>>}, next : {0}, self : {0}]
    ELSE IF call = "getInstrumentBySymbol"
    THEN [kind : {"envelope"}, results : {<<>>, <<url>>}, next : {0}, self : {0}]
    ELSE [kind : {"object"}, results : {<<>>}, next : {0}, self : {url}]

\* how `await this.api.<call>(...)` settles for the service: resolved with
\* data (a sequence; a single record is a sequence of one) or thrown
ApiResult(ok, data) == [ok |-> ok, data |-> data]

\* RobinhoodAPI.<call> on the decoded body the client returned
apiReturn(call, response) ==
    IF RobinhoodAPI[call].via = "paginate"
    THEN ApiResult(TRUE, paginatePush(<<>>, response))
    ELSE IF call = "getQuotes"
    THEN ApiResult(TRUE, IF response.kind = "envelope" THEN response.results ELSE <<>>)
    ELSE IF call = "getInstrumentBySymbol"
    THEN IF response.kind = "envelope" /\ Len(response.results) > 0
         THEN ApiResult(TRUE, <<response.results[1]>>)
         ELSE ApiResult(FALSE, <<>>)
    ELSE ApiResult(TRUE, <<response.self>>)

\* --------------------------------------------------------- service layer
\* the standardized record the mapper makes of an upstream element with the
\* instrument and quote looked up for it (0: mapped without it)
Standardized(element, instrument, quote) ==
    [id |-> element, instrument |-> instrument, quote |-> quote]

\* the operation goes on to await the raw call `call` on resource url
Await(o, call, url) == [o EXCEPT !.pc = call, !.url = url]

\* return of the operation (its result is in out / account / null)
Return(o) == [o EXCEPT !.status = "resolved", !.pc = "", !.url = 0]

\* throw this.createStandardizedError(code, ...)
Throw(o, code) ==
    [o EXCEPT !.status = "rejected", !.pc = "", !.url = 0,
              !.code = createStandardizedError(code).code,
              !.source = createStandardizedError(code).source]

\* mutant: a position whose lookups failed is kept, mapped without them
positionCatch_keeps(out, position) == Append(out, Standardized(position, 0, 0))

\* getPositions, catch inside the loop: the position is only logged
positionCatch(out, position) == out

\* getPositions, the for loop: the lookup for the next position or the return
positionsLoop(o) ==
    IF o.idx <= Len(o.src)
    THEN Await(o, "getInstrumentFromUrl", instrumentOf(o.src[o.idx]))
    ELSE Return(o)

\* RobinhoodService.getPositions, resumed when the raw call o.pc settled as r
getPositions(o, r) ==
    IF o.pc = "getPositions"
    THEN IF r.ok
         THEN positionsLoop([o EXCEPT !.src = r.data, !.idx = 1, !.out = <<>>])
         ELSE Throw(o, "POSITIONS_FETCH_FAILED")
    ELSE IF o.pc = "getInstrumentFromUrl"
    THEN IF r.ok
         THEN Await([o EXCEPT !.inst = r.data[1]], "getQuote", r.data[1])
         ELSE positionsLoop([o EXCEPT !.out = positionCatch(@, o.src[o.idx]),
                                      !.idx = @ + 1])
    ELSE IF r.ok
         THEN positionsLoop([o EXCEPT
                  !.out = Append(@, Standardized(o.src[o.idx], o.inst, r.data[1])),
                  !.idx = @ + 1])
         ELSE positionsLoop([o EXCEPT !.out = positionCatch(@, o.src[o.idx]),
                                      !.idx = @ + 1])

\* orders.slice(0, limit), limit a natural number
slice(s, limit) == SubSeq(s, 1, IF limit < Len(s) THEN limit ELSE Len(s))

\* mutant: an order whose instrument lookup failed is left out
transactionCatch_drops(out, order) == out

\* getTransactions, catch inside the loop: mapTransaction(order)
transactionCatch(out, order) == Append(out, Standardized(order, 0, 0))

\* getTransactions, the for loop
transactionsLoop(o) ==
    IF o.idx <= Len(o.src)
    THEN Await(o, "getInstrumentFromUrl", instrumentOf(o.src[o.idx]))
    ELSE Return(o)

\* RobinhoodService.getTransactions(limit), resumed when o.pc settled as r
getTransactions(o, r) ==
    IF o.pc = "getOrders"
    THEN IF r.ok
         THEN transactionsLoop([o EXCEPT !.src = slice(r.data, o.arg), !.idx = 1,
                                         !.out = <<>>])
         ELSE Throw(o, "TRANSACTIONS_FETCH_FAILED")
    ELSE transactionsLoop([o EXCEPT
             !.out = IF r.ok
                     THEN Append(@, Standardized(o.src[o.idx], r.data[1], 0))
                     ELSE transactionCatch(@, o.src[o.idx]),
             !.idx = @ + 1])

\* getDividends, catch inside the loop: mapDividend(dividend)
dividendCatch(out, dividend) == Append(out, Standardized(dividend, 0, 0))

\* getDividends, the for loop
dividendsLoop(o) ==
    IF o.idx <= Len(o.src)
    THEN Await(o, "getInstrumentFromUrl", instrumentOf(o.src[o.idx]))
    ELSE Return(o)

\* RobinhoodService.getDividends, resumed when o.pc settled as r
getDividends(o, r) ==
    IF o.pc = "getDividends"
    THEN IF r.ok
         THEN dividendsLoop([o EXCEPT !.src = r.data, !.idx = 1, !.out = <<>>])
         ELSE Throw(o, "DIVIDENDS_FETCH_FAILED")
    ELSE dividendsLoop([o EXCEPT
             !.out = IF r.ok
                     THEN Append(@, Standardized(o.src[o.idx], r.data[1], 0))
                     ELSE dividendCatch(@, o.src[o.idx]),
             !.idx = @ + 1])

\* getQuotes, catch inside the loop: mapQuote(quote)
quoteCatch(out, quote) == Append(out, Standardized(quote, 0, quote))

\* getQuotes, the for loop: the instrument is searched by quote.symbol
quotesLoop(o) ==
    IF o.idx <= Len(o.src)
    THEN Await(o, "getInstrumentBySymbol", o.src[o.idx])
    ELSE Return(o)

\* RobinhoodService.getQuotes(symbols), resumed when o.pc settled as r
getQuotes(o, r) ==
    IF o.pc = "getQuotes"
    THEN IF r.ok
         THEN quotesLoop([o EXCEPT !.src = r.data, !.idx = 1, !.out = <<>>])
         ELSE Throw(o, "QUOTES_FETCH_FAILED")
    ELSE quotesLoop([o EXCEPT
             !.out = IF r.ok
                     THEN Append(@, Standardized(o.src[o.idx], r.data[1], o.src[o.idx]))
                     ELSE quoteCatch(@, o.src[o.idx]),
             !.idx = @ + 1])

\* !accounts || accounts.length === 0
noAccounts(accounts) == Len(accounts) = 0

\* mutant: the StandardizedError thrown by the inner getPositions is passed on
portfolioCatch_rethrows(inner) == IF inner # "" THEN inner ELSE "PORTFOLIO_FETCH_FAILED"

\* getPortfolio, catch block: the code of what it throws, given the code of
\* a StandardizedError caught from the inner getPositions ("": another error)
portfolioCatch(inner) == "PORTFOLIO_FETCH_FAILED"

\* RobinhoodService.getPortfolio, resumed when o.pc settled as r: accounts,
\* the portfolio of accounts[0], then this.getPositions()
getPortfolio(o, r) ==
    IF o.pc = "getAccounts"
    THEN IF r.ok /\ ~noAccounts(r.data)
         THEN Await([o EXCEPT !.account = r.data[1]], "getPortfolio", r.data[1])
         ELSE Throw(o, portfolioCatch(""))
    ELSE IF o.pc = "getPortfolio"
    THEN IF r.ok
         THEN Await(o, "getPositions", 0)
         ELSE Throw(o, portfolioCatch(""))
    ELSE LET inner == getPositions(o, r)
         IN IF inner.status = "rejected"
            THEN Throw(o, portfolioCatch(inner.code))
            ELSE inner

\* mutant: with no account an empty balance is returned
getBalance_emptyBalance(o, r) ==
    IF r.ok
    THEN Return([o EXCEPT !.account = IF noAccounts(r.data) THEN 0 ELSE r.data[1]])
    ELSE Throw(o, "BALANCE_FETCH_FAILED")

\* RobinhoodService.getBalance, resumed when getAccounts settled as r
getBalance(o, r) ==
    IF r.ok /\ ~noAccounts(r.data)
    THEN Return([o EXCEPT !.account = r.data[1]])
    ELSE Throw(o, "BALANCE_FETCH_FAILED")

\* positions.find(p => p.instrument === instrument.url): the index of the
\* first such position, 0 when there is none
find_first(positions, instrument) == IF positions = <<>> THEN 0 ELSE 1

find(positions, instrument) ==
    IF \E k \in 1..Len(positions) : instrumentOf(positions[k]) = instrument
    THEN CHOOSE k \in 1..Len(positions) :
            /\ instrumentOf(positions[k]) = instrument
            /\ \A j \in 1..(k - 1) : instrumentOf(positions[j]) # instrument
    ELSE 0

\* RobinhoodService.getPosition(symbol), resumed when o.pc settled as r
getPosition(o, r) ==
    IF ~r.ok THEN Throw(o, "POSITION_FETCH_FAILED")
    ELSE IF o.pc = "getPositions"
    THEN Await([o EXCEPT !.src = r.data], "getInstrumentBySymbol", o.arg)
    ELSE IF o.pc = "getInstrumentBySymbol"
    THEN IF find(o.src, r.data[1]) = 0
         THEN Return([o EXCEPT !.null = TRUE])
         ELSE Await([o EXCEPT !.inst = r.data[1], !.idx = find(o.src, r.data[1])],
                    "getQuote", o.arg)
    ELSE Return([o EXCEPT !.out = <<Standardized(o.src[o.idx], o.inst, r.data[1])>>])

\* accounts.map(account => PortfolioMapper.mapAccount(account))
mapAccounts(accounts) == [k \in 1..Len(accounts) |-> Standardized(accounts[k], 0, 0)]

\* RobinhoodService.getAccounts, resumed when getAccounts settled as r
getAccounts(o, r) ==
    IF r.ok
    THEN Return([o EXCEPT !.out = mapAccounts(r.data)])
    ELSE Throw(o, "ACCOUNTS_FETCH_FAILED")

\* RobinhoodService.getHistoricalData, resumed when getHistoricals settled
getHistoricalData(o, r) ==
    IF r.ok
    THEN Return([o EXCEPT !.out = <<Standardized(r.data[1], 0, 0)>>])
    ELSE Throw(o, "HISTORICAL_DATA_FETCH_FAILED")

\* RobinhoodService.getWatchlists, resumed when getWatchlists settled as r
getWatchlists(o, r) ==
    IF r.ok
    THEN Return([o EXCEPT !.out = [k \in 1..Len(r.data) |->
                                     Standardized(r.data[k], 0, 0)]])
    ELSE Throw(o, "WATCHLISTS_FETCH_FAILED")

\* mutant: a failed instrument lookup falls back to mapQuote(quote)
getQuote_fallsBack(o, r) ==
    IF o.join = "void" THEN IdleOp
    ELSE IF ~r.ok
    THEN IF o.pc = "getInstrumentBySymbol" /\ o.join = "last"
         THEN Return([o EXCEPT !.out = <<Standardized(o.arg, 0, o.arg)>>])
         ELSE Throw(o, "QUOTE_FETCH_FAILED")
    ELSE IF o.join = "last"
    THEN Return([o EXCEPT !.out = <<Standardized(o.arg, o.arg, o.arg)>>])
    ELSE IdleOp

\* RobinhoodService.getQuote(symbol): one of the two lookups given to
\* Promise.all settled as r.  join tells how Promise.all stands for the
\* lookup o: "both" (the other lookup is still awaited), "last" (the other
\* one has resolved), "void" (Promise.all has rejected already: the outcome
\* of this lookup goes nowhere)
getQuote(o, r) ==
    IF o.join = "void" THEN IdleOp
    ELSE IF ~r.ok THEN Throw(o, "QUOTE_FETCH_FAILED")
    ELSE IF o.join = "last"
    THEN Return([o EXCEPT !.out = <<Standardized(o.arg, o.arg, o.arg)>>])
    ELSE IdleOp

\* Promise.all: what the settling of the lookup o in slot i as r means for
\* the other lookup of the same getQuote
promiseAll(i, o, r, all) ==
    IF o.op = "getQuote" /\ o.join = "both"
    THEN [j \in Slots |->
            IF j # i /\ all[j].op = "getQuote" /\ all[j].join = "both"
            THEN [all[j] EXCEPT !.join = IF r.ok THEN "last" ELSE "void"]
            ELSE all[j]]
    ELSE all

\* the data operations of RobinhoodService
ServiceOps ==
    {"getPortfolio", "getPositions", "getPosition", "getAccounts", "getBalance",
     "getQuote", "getQuotes", "getTransactions", "getHistoricalData",
     "getWatchlists", "getDividends"}

\* mutant: getWatchlists goes through the order placement call
firstCall_placesOrder(op) ==
    CASE op = "getPortfolio" -> "getAccounts"
      [] op = "getPositions" -> "getPositions"
      [] op = "getPosition" -> "getPositions"
      [] op = "getAccounts" -> "getAccounts"
      [] op = "getBalance" -> "getAccounts"
      [] op = "getHistoricalData" -> "getHistoricals"
      [] op = "getWatchlists" -> "placeOrder"
      [] op = "getTransactions" -> "getOrders"
      [] op = "getDividends" -> "getDividends"
      [] op = "getQuotes" -> "getQuotes"

\* the raw call an operation starts with
firstCall(op) ==
    CASE op = "getPortfolio" -> "getAccounts"
      [] op = "getPositions" -> "getPositions"
      [] op = "getPosition" -> "getPositions"
      [] op = "getAccounts" -> "getAccounts"
      [] op = "getBalance" -> "getAccounts"
      [] op = "getHistoricalData" -> "getHistoricals"
      [] op = "getWatchlists" -> "getWatchlists"
      [] op = "getTransactions" -> "getOrders"
      [] op = "getDividends" -> "getDividends"
      [] op = "getQuotes" -> "getQuotes"

\* the operation o resumed when the raw call it awaits settled as r
Resume(o, r) ==
    CASE o.op = "getPortfolio" -> getPortfolio(o, r)
      [] o.op = "getPositions" -> getPositions(o, r)
      [] o.op = "getPosition" -> getPosition(o, r)
      [] o.op = "getAccounts" -> getAccounts(o, r)
      [] o.op = "getBalance" -> getBalance(o, r)
      [] o.op = "getQuote" -> getQuote(o, r)
      [] o.op = "getHistoricalData" -> getHistoricalData(o, r)
      [] o.op = "getWatchlists" -> getWatchlists(o, r)
      [] o.op = "getTransactions" -> getTransactions(o, r)
      [] o.op = "getDividends" -> getDividends(o, r)
      [] o.op = "getQuotes" -> getQuotes(o, r)

\* the raw call o.pc settled as r: the operation is resumed and, when it
\* goes on to another raw call, that call's request is sent with the tokens
\* then held; when it rejects, error is the detail of its StandardizedError
Settled(o, r, tokens, error) ==
    LET seen == [o EXCEPT !.answers = Append(@, [call |-> o.pc, url |-> o.url,
                                                 ok |-> r.ok]),
                          !.upstream = IF o.answers = <<>> THEN r.data ELSE @]
        o2 == Resume(seen, r)
    IN IF o2.status = "inflight"
       THEN [o2 EXCEPT !.stack = <<NewRequest(o2.pc, o2.url, tokens)>>,
                       !.wire = @ + 1, !.sends = 1]
       ELSE [o2 EXCEPT !.stack = <<>>,
                       !.err = IF o2.status = "rejected" THEN error ELSE @]

\* the caller of the service awaits one operation before it calls the next:
\* nothing is in flight when an operation is called
Quiet == \A j \in Slots : Taken[j].status = "idle"

\* a data operation is called: its first raw call is sent
StartService(i, op, arg) ==
    /\ CanCall(i)
    /\ Quiet
    /\ ops' = [Taken EXCEPT ![i] =
                 [StartOp(op, NewRequest(firstCall(op), 0, authTokens))
                     EXCEPT !.pc = firstCall(op), !.arg = arg]]
    /\ calls' = calls + 1
    /\ ev' = Event("call", i, 0, FALSE, 0)
    /\ UNCHANGED <<authTokens, nextTok, faults>>

\* RobinhoodService.getPortfolio()
CallGetPortfolio(i) == StartService(i, "getPortfolio", 0)

\* RobinhoodService.getBalance()
CallGetBalance(i) == StartService(i, "getBalance", 0)

\* RobinhoodService.getPosition(symbol)
CallGetPosition(i) == \E symbol \in Items : StartService(i, "getPosition", symbol)

\* RobinhoodService.getAccounts()
CallGetAccounts(i) == StartService(i, "getAccounts", 0)

\* RobinhoodService.getHistoricalData(symbol)
CallGetHistoricalData(i) ==
    \E symbol \in Items : StartService(i, "getHistoricalData", symbol)

\* RobinhoodService.getWatchlists()
CallGetWatchlists(i) == StartService(i, "getWatchlists", 0)

\* RobinhoodService.getQuote(symbol): Promise.all of the quote lookup and
\* the instrument search, both sent at once (slots i and i + 1)
CallGetQuote(i) ==
    /\ CanCall(i)
    /\ Quiet
    /\ i + 1 \in Slots
    /\ \E symbol \in Items :
          ops' = [Taken EXCEPT
                    ![i] = [StartOp("getQuote", NewRequest("getQuote", symbol, authTokens))
                              EXCEPT !.pc = "getQuote", !.url = symbol,
                                     !.arg = symbol, !.join = "both"],
                    ![i + 1] = [StartOp("getQuote",
                                        NewRequest("getInstrumentBySymbol", symbol,
                                                   authTokens))
                                  EXCEPT !.pc = "getInstrumentBySymbol", !.url = symbol,
                                         !.arg = symbol, !.join = "both"]]
    /\ calls' = calls + 1
    /\ ev' = Event("call", i, 0, FALSE, 0)
    /\ UNCHANGED <<authTokens, nextTok, faults>>

\* RobinhoodService.getPositions()
CallGetPositions(i) == StartService(i, "getPositions", 0)

\* RobinhoodService.getTransactions(limit); limit = 100 when not given
CallGetTransactions(i) ==
    \E limit \in {1, DefaultLimit} : StartService(i, "getTransactions", limit)

\* RobinhoodService.getDividends()
CallGetDividends(i) == StartService(i, "getDividends", 0)

\* RobinhoodService.getQuotes(symbols)
CallGetQuotes(i) == StartService(i, "getQuotes", 0)

\* a 2xx answer to the top request of the data operation in slot i
ServiceRespondOK(i) ==
    /\ ops[i].status = "inflight"
    /\ ops[i].op \in ServiceOps
    /\ LET o == ops[i]
           d == Len(o.stack)
           top == o.stack[d]
       IN IF top.kind = "refresh"
          THEN /\ nextTok <= MaxTokens
               /\ nextTok' = nextTok + 1
               /\ authTokens' = refreshStore(TokenSet(nextTok))
               /\ ops' = [Taken EXCEPT ![i] =
                            RefreshedAndReplayed(o, TokenSet(nextTok))]
               /\ ev' = Event("response", i, 200, FALSE, nextTok)
          ELSE /\ UNCHANGED <<authTokens, nextTok>>
               /\ \E response \in ServiceBodies(o.pc, o.url) :
                     LET r == apiReturn(o.pc, response)
                     IN ops' = promiseAll(i, o, r,
                                  [Taken EXCEPT ![i] = Settled(o, r, authTokens, NoError)])
               /\ ev' = Event("response", i, 200, FALSE, 0)
    /\ UNCHANGED <<faults, calls>>

\* an error answer (or no answer) to the top request of the data operation
\* in slot i
ServiceRespondError(i) ==
    /\ ops[i].status = "inflight"
    /\ ops[i].op \in ServiceOps
    /\ faults < MaxFaults
    /\ \E status \in ErrorStatuses :
         LET o == ops[i]
             d == Len(o.stack)
             top == o.stack[d]
         IN /\ IF responseInterceptor(status, top.retry, authTokens) = "refresh"
               THEN /\ ops' = [Taken EXCEPT ![i] =
                          [o EXCEPT !.stack = Append([o.stack EXCEPT ![d].retry = TRUE],
                                                     NewRequest("refresh", 0, authTokens)),
                                    !.wire = @ + 1,
                                    !.refreshes = @ + 1]]
                    /\ authTokens' = authTokens
               ELSE /\ authTokens' = tokensAfterFailure(d, authTokens)
                    /\ ops' = promiseAll(i, o, ApiResult(FALSE, <<>>),
                          [Taken EXCEPT ![i] =
                             Settled(o, ApiResult(FALSE, <<>>), authTokens',
                                     AxiosError(status, FALSE, d, top.retry))])
            /\ ev' = Event("response", i, status, FALSE, 0)
    /\ faults' = faults + 1
    /\ UNCHANGED <<nextTok, calls>>

\* the answers to the POSTs of authenticate and refreshToken are those of
\* the client
ClientRespondOK(i) ==
    ops[i].op \in {"authenticate", "refreshToken"} /\ RespondOK(i)

ClientRespondError(i) ==
    ops[i].op \in {"authenticate", "refreshToken"} /\ RespondError(i)

\* authenticate and refreshToken called by the caller of the service
ServiceAuthenticate(i) == Quiet /\ CallAuthenticate(i)

ServiceRefreshToken(i) == Quiet /\ CallRefreshToken(i)

\* new RobinhoodService(config) with config.accessToken: the constructor of
\* the client calls setAuthToken
ServiceSetAuthToken ==
    /\ calls = 0
    /\ authTokens = Undefined
    /\ nextTok <= MaxTokens
    /\ authTokens' = setAuthToken(nextTok)
    /\ nextTok' = nextTok + 1
    /\ ev' = Event("setAuthToken", 0, 0, FALSE, 0)
    /\ ops' = Taken
    /\ UNCHANGED <<faults, calls>>

NextService ==
    \/ ServiceSetAuthToken
    \/ ServiceAuthenticate(1)
    \/ ServiceRefreshToken(1)
    \/ ClientRespondOK(1)
    \/ ClientRespondError(1)
    \/ CallGetPortfolio(1)
    \/ CallGetPositions(1)
    \/ CallGetPosition(1)
    \/ CallGetAccounts(1)
    \/ CallGetBalance(1)
    \/ CallGetQuote(1)
    \/ CallGetQuotes(1)
    \/ CallGetTransactions(1)
    \/ CallGetHistoricalData(1)
    \/ CallGetWatchlists(1)
    \/ CallGetDividends(1)
    \/ \E i \in Slots : ServiceRespondOK(i)
    \/ \E i \in Slots : ServiceRespondError(i)
SpecService == Init /\ [][NextService]_vars

\* ---------------------------------------------------------------- mapper
\* a numeric field of an upstream record: absent (undefined or null), the
\* empty string, a string that is no number ('abc'), or a decimal string
Absent == [kind |-> "absent", value |-> 0]

NumericFields ==
    [kind : {"absent", "empty", "text"}, value : {0}]
    \cup [kind : {"decimal"}, value : 0..MaxAmount]

\* a JavaScript number: a rational n / d (d >= 1), NaN or an infinity
Num(v) == [kind |-> "num", n |-> v, d |-> 1]

NaN == [kind |-> "nan", n |-> 0, d |-> 1]

Infinity == [kind |-> "inf", n |-> 0, d |-> 1]

\* parseFloat(s): the value of a decimal string; NaN for undefined, null, ''
\* and for a string that does not start with a number
parseFloat(s) == IF s.kind = "decimal" THEN Num(s.value) ELSE NaN

\* s || '0': undefined, null and '' are falsy
orZero(s) ==
    IF s.kind \in {"absent", "empty"} THEN [kind |-> "decimal", value |-> 0] ELSE s

\* a * b
times(a, b) ==
    IF a.kind = "nan" \/ b.kind = "nan" THEN NaN
    ELSE IF a.kind = "inf" \/ b.kind = "inf"
    THEN IF (a.kind = "num" /\ a.n = 0) \/ (b.kind = "num" /\ b.n = 0)
         THEN NaN ELSE Infinity
    ELSE [kind |-> "num", n |-> a.n * b.n, d |-> a.d * b.d]

\* a - b
minus(a, b) ==
    IF a.kind = "nan" \/ b.kind = "nan" THEN NaN
    ELSE IF a.kind = "inf" \/ b.kind = "inf"
    THEN IF a.kind = b.kind THEN NaN ELSE Infinity
    ELSE [kind |-> "num", n |-> a.n * b.d - b.n * a.d, d |-> a.d * b.d]

\* a / b
dividedBy(a, b) ==
    IF a.kind = "nan" \/ b.kind = "nan" THEN NaN
    ELSE IF a.kind = "inf" THEN IF b.kind = "inf" THEN NaN ELSE Infinity
    ELSE IF b.kind = "inf" THEN Num(0)
    ELSE IF b.n = 0 THEN IF a.n = 0 THEN NaN ELSE Infinity
    ELSE IF b.n > 0
    THEN [kind |-> "num", n |-> a.n * b.d, d |-> a.d * b.n]
    ELSE [kind |-> "num", n |-> (0 - a.n) * b.d, d |-> a.d * (0 - b.n)]

\* a !== 0
notZero(a) == a.kind # "num" \/ a.n # 0

\* mutant: the percentage is computed whatever the denominator
percent_unguarded(numerator, denominator) ==
    times(dividedBy(numerator, denominator), Num(100))

\* denominator !== 0 ? (numerator / denominator) * 100 : 0
percent(numerator, denominator) ==
    IF notZero(denominator)
    THEN times(dividedBy(numerator, denominator), Num(100))
    ELSE Num(0)

\* quote?.field of an optional record
optional(record, field) == IF record.defined THEN record[field] ELSE Absent

\* PortfolioMapper.mapPosition: the numeric fields of the position
mapPosition(position, quote) ==
    LET quantity == parseFloat(orZero(position.quantity))
        averageCost == parseFloat(orZero(position.averageBuyPrice))
        currentPrice == parseFloat(orZero(optional(quote, "lastTradePrice")))
        marketValue == times(quantity, currentPrice)
        totalCost == times(quantity, averageCost)
        totalGainLoss == minus(marketValue, totalCost)
        previousClose == parseFloat(orZero(optional(quote, "previousClose")))
        dayChange == minus(currentPrice, previousClose)
    IN [quantity |-> quantity, averageCost |-> averageCost,
        currentPrice |-> currentPrice, marketValue |-> marketValue,
        dayChange |-> times(dayChange, quantity),
        dayChangePercent |-> percent(dayChange, previousClose),
        totalGainLoss |-> totalGainLoss,
        totalGainLossPercent |-> percent(totalGainLoss, totalCost)]

\* PortfolioMapper.mapQuote: the numeric fields of the quote
mapQuote(quote) ==
    LET price == parseFloat(orZero(quote.lastTradePrice))
        previousClose == parseFloat(orZero(quote.previousClose))
        change == minus(price, previousClose)
    IN [price |-> price, previousClose |-> previousClose, change |-> change,
        changePercent |-> percent(change, previousClose),
        bid |-> parseFloat(orZero(quote.bidPrice)),
        ask |-> parseFloat(orZero(quote.askPrice))]

\* PortfolioMapper.mapPortfolio: the numeric fields of the portfolio
mapPortfolio(account, portfolio) ==
    LET totalValue == parseFloat(orZero(portfolio.market_value))
        equity == parseFloat(orZero(portfolio.equity))
        previousEquity == parseFloat(orZero(portfolio.lastCoreEquity))
        dayChange == minus(equity, previousEquity)
    IN [totalValue |-> totalValue,
        cashBalance |-> parseFloat(orZero(account.cash)),
        buyingPower |-> parseFloat(orZero(account.buyingPower)),
        dayChange |-> dayChange,
        dayChangePercent |-> percent(dayChange, previousEquity),
        totalGainLoss |-> Num(0), totalGainLossPercent |-> Num(0)]

\* PortfolioMapper.mapBalance: the numeric fields of the balance
mapBalance(account) ==
    [cashBalance |-> parseFloat(orZero(account.cash)),
     unsettledCash |-> parseFloat(orZero(account.unsettledFunds)),
     buyingPower |-> parseFloat(orZero(account.buyingPower)),
     pendingDeposits |-> parseFloat(orZero(account.unclearedDeposits)),
     pendingWithdrawals |-> Num(0)]

\* a || b
orElse(a, b) == IF a.kind \in {"absent", "empty"} THEN b ELSE a

\* PortfolioMapper.mapTransaction: the numeric fields of the transaction
mapTransaction(order) ==
    LET quantity == parseFloat(orZero(order.quantity))
        price == parseFloat(orZero(orElse(order.averagePrice, order.price)))
    IN [quantity |-> quantity, price |-> price, amount |-> times(quantity, price),
        fee |-> parseFloat(orZero(order.fees))]

\* PortfolioMapper.mapHistoricalData: the prices of every data point
mapHistoricalData(historicals) ==
    [k \in 1..Len(historicals) |->
        [open |-> parseFloat(historicals[k].openPrice),
         high |-> parseFloat(historicals[k].highPrice),
         low |-> parseFloat(historicals[k].lowPrice),
         close |-> parseFloat(historicals[k].closePrice)]]

\* PortfolioMapper.mapDividend: the numeric fields of the dividend
mapDividend(dividend) ==
    [amount |-> parseFloat(dividend.amount),
     withholding |-> parseFloat(orZero(dividend.withholding))]

\* the upstream records given to the mapper
Positions == [quantity : NumericFields, averageBuyPrice : NumericFields]

QuotesOfPosition ==
    [defined : {TRUE}, lastTradePrice : NumericFields, previousClose : NumericFields]
    \cup {[defined |-> FALSE, lastTradePrice |-> Absent, previousClose |-> Absent]}

Quotes ==
    [lastTradePrice : NumericFields, previousClose : NumericFields,
     bidPrice : NumericFields, askPrice : NumericFields]

Portfolios ==
    [market_value : NumericFields, equity : NumericFields,
     lastCoreEquity : NumericFields]

Accounts ==
    [cash : NumericFields, unsettledFunds : NumericFields,
     buyingPower : NumericFields, unclearedDeposits : NumericFields]

AccountsOfPortfolio == [cash : NumericFields, buyingPower : NumericFields]

Orders ==
    [quantity : NumericFields, averagePrice : NumericFields, price : NumericFields,
     fees : NumericFields]

Historicals ==
    SeqsUpTo([openPrice : NumericFields, highPrice : NumericFields,
              lowPrice : NumericFields, closePrice : NumericFields], 1)

Dividends == [amount : NumericFields, withholding : NumericFields]

\* a call of a mapper function: its name, its arguments and, once it has
\* returned, its result
MapperCall(fn, input) ==
    [type |-> "mapper", fn |-> fn, input |-> input, done |-> FALSE, output |-> <<>>]

\* the client is as constructed; a mapper function is about to be called on
\* upstream records
InitMapper ==
    /\ authTokens = Undefined
    /\ ops = [i \in Slots |-> IdleOp]
    /\ nextTok = 1
    /\ faults = 0
    /\ calls = 0
    /\ \/ \E p \in Positions, q \in QuotesOfPosition :
            ev = MapperCall("mapPosition", [position |-> p, quote |-> q])
       \/ \E q \in Quotes : ev = MapperCall("mapQuote", [quote |-> q])
       \/ \E a \in AccountsOfPortfolio, p \in Portfolios :
            ev = MapperCall("mapPortfolio", [account |-> a, portfolio |-> p])
       \/ \E a \in Accounts : ev = MapperCall("mapBalance", [account |-> a])
       \/ \E o \in Orders : ev = MapperCall("mapTransaction", [order |-> o])
       \/ \E h \in Historicals : ev = MapperCall("mapHistoricalData", [historicals |-> h])
       \/ \E d \in Dividends : ev = MapperCall("mapDividend", [dividend |-> d])

\* the mapper function fn is about to be called
Calling(fn) == ev.type = "mapper" /\ ev.fn = fn /\ ~ev.done

\* the mapper function has returned output
Returned(output) ==
    /\ ev' = [ev EXCEPT !.done = TRUE, !.output = output]
    /\ UNCHANGED <<authTokens, ops, nextTok, faults, calls>>

MapPosition ==
    Calling("mapPosition") /\ Returned(mapPosition(ev.input.position, ev.input.quote))

MapQuote == Calling("mapQuote") /\ Returned(mapQuote(ev.input.quote))

MapPortfolio ==
    Calling("mapPortfolio") /\ Returned(mapPortfolio(ev.input.account, ev.input.portfolio))

MapBalance == Calling("mapBalance") /\ Returned(mapBalance(ev.input.account))

MapTransaction == Calling("mapTransaction") /\ Returned(mapTransaction(ev.input.order))

MapHistoricalData ==
    Calling("mapHistoricalData") /\ Returned(mapHistoricalData(ev.input.historicals))

MapDividend == Calling("mapDividend") /\ Returned(mapDividend(ev.input.dividend))

NextMapper ==
    \/ MapPosition
    \/ MapQuote
    \/ MapPortfolio
    \/ MapBalance
    \/ MapTransaction
    \/ MapHistoricalData
    \/ MapDividend
SpecMapper == InitMapper /\ [][NextMapper]_vars

\* ---------------------------------------------------- mapper: record fields
\* The descriptive fields of the standardized records: symbol, name, status,
\* the source tag and the timestamp fields.  The numeric fields of the same
\* functions are mapPosition .. mapDividend above.

\* the JavaScript value undefined, where a string is expected
Undef == "undefined"

\* an optional argument: <<>> when the caller passes none
Optional(S) == {<<>>} \cup {<<x>> : x \in S}

Instruments ==
    {[symbol |-> "AAPL", name |-> "Apple Inc."],
     [symbol |-> "TSLA", name |-> "Tesla Inc."]}

\* order states the upstream sends, and two it is not known to send
OrderStates ==
    {"filled", "executed", "cancelled", "canceled", "failed", "rejected",
     "pending", "queued", "confirmed", "partially_filled", "unconfirmed", ""}

DividendStates == {"paid", "pending", "voided"}

\* instrument?.field
optionalChain(instrument, field) ==
    IF instrument = <<>> THEN Undef ELSE instrument[1][field]

\* a || b on strings: the empty string and undefined are falsy
orString(a, b) == IF a \in {Undef, ""} THEN b ELSE a

\* the function did not return: reading a property of undefined throws
TypeError ==
    [threw |-> TRUE, symbol |-> Undef, name |-> Undef, status |-> Undef,
     source |-> Undef, timestamps |-> {}]

\* what a mapper function returns, by its descriptive fields; source is the
\* value of metadata.source (Undef when the record has no such field) and
\* timestamps the names of the Date fields of the record
Record(symbol, name, status, source, timestamps) ==
    [threw |-> FALSE, symbol |-> symbol, name |-> name, status |-> status,
     source |-> source, timestamps |-> timestamps]

mapOrderStatus_default(state) ==
    IF state \in {"filled", "executed"} THEN "completed"
    ELSE IF state \in {"cancelled", "canceled"} THEN "cancelled"
    ELSE IF state \in {"pending", "queued", "confirmed", "partially_filled"}
    THEN "pending"
    ELSE "failed"

mapOrderStatus(state) ==
    IF state \in {"filled", "executed"} THEN "completed"
    ELSE IF state \in {"cancelled", "canceled"} THEN "cancelled"
    ELSE IF state \in {"failed", "rejected"} THEN "failed"
    ELSE IF state \in {"pending", "queued", "confirmed", "partially_filled"}
    THEN "pending"
    ELSE "pending"

mapAccountRecord(account) ==
    Record(Undef, Undef, "active", "robinhood", {"openedDate", "lastUpdated"})

mapPortfolioRecord(account) ==
    Record(Undef, Undef, Undef, "robinhood", {"lastUpdated"})

\* instrument.symbol is read without a guard
mapPositionRecord(instrument) ==
    IF instrument = <<>> THEN TypeError
    ELSE Record(instrument[1].symbol, instrument[1].name, Undef, Undef, {"lastUpdated"})

mapBalanceRecord(account) ==
    Record(Undef, Undef, Undef, Undef, {"lastUpdated"})

mapQuoteRecord(quote, instrument) ==
    Record(quote.symbol, optionalChain(instrument, "name"), Undef, Undef, {"lastUpdated"})

mapTransactionRecord(order, instrument) ==
    Record(optionalChain(instrument, "symbol"), optionalChain(instrument, "name"),
           mapOrderStatus(order.state), "robinhood", {"date"})

mapHistoricalDataRecord(historicals) ==
    Record(historicals.symbol, Undef, Undef, "robinhood", {"startDate", "endDate"})

mapWatchlistRecord(watchlist) ==
    Record(Undef, watchlist.name, Undef, "robinhood", {"createdAt", "updatedAt"})

mapDividendRecord(dividend, instrument) ==
    Record(orString(optionalChain(instrument, "symbol"), ""), Undef,
           IF dividend.state = "paid" THEN "paid" ELSE "pending",
           "robinhood", {"paymentDate", "exDividendDate", "recordDate"})

Symbols == {i.symbol : i \in Instruments}

\* a mapper function is about to be called on upstream records, with or
\* without the related instrument
InitRecord ==
    /\ authTokens = Undefined
    /\ ops = [i \in Slots |-> IdleOp]
    /\ nextTok = 1
    /\ faults = 0
    /\ calls = 0
    /\ \/ \E t \in {"cash", "margin"} :
            ev = MapperCall("mapAccount", [account |-> [type |-> t]])
       \/ \E t \in {"cash", "margin"} :
            ev = MapperCall("mapPortfolio", [account |-> [type |-> t]])
       \/ \E i \in Optional(Instruments) :
            ev = MapperCall("mapPosition", [instrument |-> i])
       \/ \E t \in {"cash", "margin"} :
            ev = MapperCall("mapBalance", [account |-> [type |-> t]])
       \/ \E s \in Symbols, i \in Optional(Instruments) :
            ev = MapperCall("mapQuote", [quote |-> [symbol |-> s], instrument |-> i])
       \/ \E s \in OrderStates, side \in {"buy", "sell"}, i \in Optional(Instruments) :
            ev = MapperCall("mapTransaction",
                            [order |-> [state |-> s, side |-> side], instrument |-> i])
       \/ \E s \in Symbols :
            ev = MapperCall("mapHistoricalData", [historicals |-> [symbol |-> s]])
       \/ \E n \in {"Default", "Tech"} :
            ev = MapperCall("mapWatchlist", [watchlist |-> [name |-> n]])
       \/ \E s \in DividendStates, i \in Optional(Instruments) :
            ev = MapperCall("mapDividend", [dividend |-> [state |-> s], instrument |-> i])

MapAccountRecord ==
    Calling("mapAccount") /\ Returned(mapAccountRecord(ev.input.account))

MapPortfolioRecord ==
    Calling("mapPortfolio") /\ Returned(mapPortfolioRecord(ev.input.account))

MapPositionRecord ==
    Calling("mapPosition") /\ Returned(mapPositionRecord(ev.input.instrument))

MapBalanceRecord ==
    Calling("mapBalance") /\ Returned(mapBalanceRecord(ev.input.account))

MapQuoteRecord ==
    Calling("mapQuote") /\ Returned(mapQuoteRecord(ev.input.quote, ev.input.instrument))

MapTransactionRecord ==
    Calling("mapTransaction")
    /\ Returned(mapTransactionRecord(ev.input.order, ev.input.instrument))

MapHistoricalDataRecord ==
    Calling("mapHistoricalData") /\ Returned(mapHistoricalDataRecord(ev.input.historicals))

MapWatchlistRecord ==
    Calling("mapWatchlist") /\ Returned(mapWatchlistRecord(ev.input.watchlist))

MapDividendRecord ==
    Calling("mapDividend")
    /\ Returned(mapDividendRecord(ev.input.dividend, ev.input.instrument))

NextRecord ==
    \/ MapAccountRecord
    \/ MapPortfolioRecord
    \/ MapPositionRecord
    \/ MapBalanceRecord
    \/ MapQuoteRecord
    \/ MapTransactionRecord
    \/ MapHistoricalDataRecord
    \/ MapWatchlistRecord
    \/ MapDividendRecord
SpecRecord == InitRecord /\ [][NextRecord]_vars

\* ------------------------------------------------------------- properties
\* the request on the wire for slot i
Top(i) == ops[i].stack[Len(ops[i].stack)]

\* this step is the upstream's answer to the request on the wire for slot i
Answered(i) ==
    /\ ops[i].status = "inflight"
    /\ ev'.type = "response"
    /\ ev'.slot = i

\* C1: a request that receives a 401 while a refresh token is held and that
\* is not yet marked as retried causes exactly one refresh request and, once
\* that refresh has succeeded, has been sent exactly twice (stated for the
\* plain requests of client.get/post/put/delete).
C1_OneRefreshOneReplay ==
    \A i \in Slots :
        (ops[i].op = "get" /\ ops[i].refreshes >= 1)
            => /\ ops[i].refreshes = 1
               /\ ops[i].sends = IF ops[i].refreshOK THEN 2 ELSE 1

\* C2: a request already marked as a retry that receives another 401 is not
\* re-issued and starts no refresh (nothing more is sent); it is rejected with
\* that very 401; when it is the caller's own request the token state is
\* left as it was.
C2_RetriedUnauthorizedSurfaced ==
    [][\A i \in Slots :
        (Answered(i) /\ ev'.status = Unauthorized /\ Top(i).retry)
            => /\ ops'[i].status = "rejected"
               /\ ops'[i].wire = ops[i].wire
               /\ ops'[i].err = AxiosError(Unauthorized, FALSE, Len(ops[i].stack), TRUE)
               /\ (Len(ops[i].stack) = 1 => authTokens' = authTokens)]_vars

\* C2 witness: a replayed caller request was answered 401 and rejected with
\* it, and the client still holds its TokenSet
C2_Witness ==
    \E i \in Slots :
        /\ ev.type = "response" /\ ev.slot = i /\ ev.status = Unauthorized
        /\ ops[i].status = "rejected"
        /\ ops[i].err = AxiosError(Unauthorized, FALSE, 1, TRUE)
        /\ ops[i].refreshOK
        /\ hasRefreshToken(authTokens)

\* C3: when the refresh started by a 401 handler fails (its request is
\* answered with an error and starts no further refresh), the TokenSet is
\* discarded, nothing more is sent (the original request is not re-issued)
\* and the operation is rejected with the error of the refresh request, not
\* with the original 401.
C3_FailedRefreshDiscardsTokens ==
    [][\A i \in Slots :
        (/\ Answered(i)
         /\ ev'.status \in ErrorStatuses
         /\ Len(ops[i].stack) >= 2
         /\ Len(ops'[i].stack) <= Len(ops[i].stack))
            => /\ ops'[i].status = "rejected"
               /\ authTokens' = Undefined
               /\ ~isAuthenticated(authTokens')
               /\ ops'[i].wire = ops[i].wire
               /\ ops'[i].sends = ops[i].sends
               /\ ops'[i].err = AxiosError(ev'.status, FALSE, Len(ops[i].stack),
                                           Top(i).retry)
               /\ ops'[i].err.depth >= 2]_vars

\* C3 witness: a plain request was rejected with the error 500 of the refresh
\* request its 401 had started, it was sent once, and no TokenSet is held
C3_Witness ==
    \E i \in Slots :
        /\ ops[i].op = "get" /\ ops[i].status = "rejected"
        /\ ops[i].err = AxiosError(500, FALSE, 2, FALSE)
        /\ ops[i].sends = 1 /\ ops[i].refreshes = 1
        /\ getAuthTokens = Undefined

C5_BearerIsHeldToken ==
    \A i \in Slots :
        \A k \in 1..Len(ops[i].stack) :
            LET request == ops[i].stack[k]
            IN /\ request.hdr = request.held
               /\ (k = Len(ops[i].stack) /\ request.retry) => request.hdr # request.orig

\* C5 witness: a request first sent with a bearer token is on the wire again
\* after a refresh, with the token of the refreshed TokenSet
C5_Witness ==
    \E i \in Slots :
        /\ ops[i].status = "inflight"
        /\ Len(ops[i].stack) = 1
        /\ Top(i).retry
        /\ Top(i).orig # 0
        /\ Top(i).hdr = authTokens.accessToken
        /\ Top(i).hdr # Top(i).orig

\* C6: authenticate that receives a successful response stores the TokenSet
\* of that response in place of whatever was held, returns it, and the client
\* is authenticated afterwards.
C6_AuthenticateStoresTokens ==
    [][\A i \in Slots :
        (/\ Answered(i)
         /\ ev'.status = 200
         /\ ops[i].op = "authenticate"
         /\ Len(ops[i].stack) = 1)
            => /\ ops'[i].status = "resolved"
               /\ authTokens' = TokenSet(ev'.data)
               /\ ops'[i].ret = TokenSet(ev'.data)
               /\ isAuthenticated(authTokens')]_vars

\* C6 witness: authenticate resolved with a TokenSet that replaced an earlier
\* one, and the client holds it
C6_Witness ==
    \E i \in Slots :
        /\ ops[i].op = "authenticate" /\ ops[i].status = "resolved"
        /\ ops[i].ret = TokenSet(2)
        /\ getAuthTokens = ops[i].ret
        /\ isAuthenticated(authTokens)

\* C7: a failing authenticate has the code MFA_REQUIRED exactly when the
\* answer was a 400 whose body has mfa_required true, and AUTH_FAILED after
\* every other failure; a client without TokenSet, or not authenticated,
\* before the failure is so after it.
C7_AuthenticateFailureCodes ==
    [][\A i \in Slots :
        (/\ Answered(i)
         /\ ops[i].op = "authenticate"
         /\ ops'[i].status = "rejected")
            => /\ ops'[i].code = IF ev'.status = BadRequest /\ ev'.mfa
                                 THEN "MFA_REQUIRED" ELSE "AUTH_FAILED"
               /\ (~authTokens.defined => ~authTokens'.defined)
               /\ (~isAuthenticated(authTokens) => ~isAuthenticated(authTokens'))]_vars

\* C7 witness: authenticate of a client that never held a TokenSet failed
\* with MFA_REQUIRED on a 400 with mfa_required, and still holds none
C7_Witness ==
    \E i \in Slots :
        /\ ev.type = "response" /\ ev.slot = i
        /\ ev.status = BadRequest /\ ev.mfa
        /\ ops[i].op = "authenticate" /\ ops[i].status = "rejected"
        /\ ops[i].code = "MFA_REQUIRED"
        /\ nextTok = 1
        /\ ~isAuthenticated(authTokens)

\* C8: refreshToken called while no refresh token is held is rejected with
\* 'No refresh token available' (code TOKEN_REFRESH_FAILED), sends nothing
\* and leaves the token state as it was.
C8_NoRefreshTokenFailsFast ==
    [][\A i \in Slots :
        (/\ ev'.type = "call" /\ ev'.slot = i
         /\ ops'[i].op = "refreshToken"
         /\ ~hasRefreshToken(authTokens))
            => /\ ops'[i].status = "rejected"
               /\ ops'[i].err = NoRefreshTokenError
               /\ ops'[i].code = "TOKEN_REFRESH_FAILED"
               /\ ops'[i].wire = 0
               /\ ops'[i].stack = <<>>
               /\ authTokens' = authTokens]_vars

\* C8 witness: refreshToken of a client whose access token was only
\* pre-seeded failed fast, and the client still reports authenticated
C8_Witness ==
    \E i \in Slots :
        /\ ev.type = "call" /\ ev.slot = i
        /\ ops[i].op = "refreshToken" /\ ops[i].status = "rejected"
        /\ ops[i].err = NoRefreshTokenError
        /\ ops[i].wire = 0
        /\ isAuthenticated(authTokens) /\ ~hasRefreshToken(authTokens)

\* C9: whenever a refresh attempt fails (a refresh request is answered with
\* an error that rejects it), whether the 401 handler or an explicit
\* refreshToken call started it, the TokenSet is cleared.
C9_AnyFailedRefreshClearsTokens ==
    [][\A i \in Slots :
        (/\ Answered(i)
         /\ Top(i).kind = "refresh"
         /\ ops'[i].status = "rejected")
            => authTokens' = Undefined]_vars

\* C10: paginate over N envelope pages, the last with next null, returns
\* the pages' results concatenated in upstream order (nothing dropped or
\* merged) after exactly N calls of get, the first to the given URL and the
\* k-th to the next link of page k-1; when no request was answered with an
\* error these are the only requests sent.
RECURSIVE Concatenated(_)
Concatenated(pages) ==
    IF pages = <<>> THEN <<>>
    ELSE pages[1].results \o Concatenated(Tail(pages))

RECURSIVE TotalSize(_)
TotalSize(pages) ==
    IF pages = <<>> THEN 0
    ELSE Len(pages[1].results) + TotalSize(Tail(pages))

AllEnvelopes(pages) == \A k \in 1..Len(pages) : pages[k].kind = "envelope"

C10_PaginateConcatenates ==
    \A i \in Slots :
        (/\ ops[i].op = "paginate"
         /\ ops[i].status = "resolved"
         /\ AllEnvelopes(ops[i].served))
            => LET pages == ops[i].served
                   N == Len(pages)
               IN /\ ops[i].results = Concatenated(pages)
                  /\ Len(ops[i].results) = TotalSize(pages)
                  /\ pages[N].next = 0
                  /\ ops[i].gets = N
                  /\ ops[i].urls = [k \in 1..N |-> IF k = 1 THEN 1 ELSE pages[k - 1].next]
                  /\ (faults = 0 => ops[i].wire = N)

\* C10 witness: three envelope pages of one element each, the third
\* repeating the first, were returned as <<1, 2, 1>> after three requests
C10_Witness ==
    \E i \in Slots :
        /\ ops[i].op = "paginate" /\ ops[i].status = "resolved"
        /\ AllEnvelopes(ops[i].served)
        /\ Len(ops[i].served) = 3
        /\ ops[i].results = <<1, 2, 1>>
        /\ ops[i].wire = 3

\* C11: a decoded body that is a bare sequence is returned as it is, and one
\* that is a single object (no results, not a sequence) as a one-element
\* sequence, in both cases after exactly one request, no further one sent.
C11_BareBodiesEndPagination ==
    \A i \in Slots :
        (/\ ops[i].op = "paginate"
         /\ Len(ops[i].served) >= 1
         /\ ops[i].served[1].kind \in {"array", "object"})
            => /\ ops[i].status = "resolved"
               /\ ops[i].gets = 1
               /\ ops[i].results = IF ops[i].served[1].kind = "array"
                                   THEN ops[i].served[1].results
                                   ELSE <<ops[i].served[1].self>>

\* the answers the auxiliary lookups got, after the one of the primary call
Lookups(o) == SubSeq(o.answers, 2, Len(o.answers))

\* the positions of src whose instrument lookup and quote lookup both
\* succeeded, given the answers the lookups got, position by position
RECURSIVE BothSucceeded(_, _)
BothSucceeded(src, lookups) ==
    IF src = <<>> \/ lookups = <<>> THEN <<>>
    ELSE IF ~lookups[1].ok
    THEN BothSucceeded(Tail(src), Tail(lookups))
    ELSE IF Len(lookups) < 2 THEN <<>>
    ELSE IF ~lookups[2].ok
    THEN BothSucceeded(Tail(src), Tail(Tail(lookups)))
    ELSE <<Standardized(Head(src), lookups[1].url, lookups[2].url)>>
         \o BothSucceeded(Tail(src), Tail(Tail(lookups)))

\* C12: getPositions returns exactly the positions whose instrument lookup
\* and quote lookup both succeeded, in upstream order; a failed auxiliary
\* lookup drops only that position and never makes getPositions reject (it
\* rejects only when the positions fetch itself failed), so with every
\* lookup failing it resolves with the empty list.
C12_GetPositionsDropsFailedLookups ==
    \A i \in Slots :
        ops[i].op = "getPositions" =>
            /\ ops[i].status = "resolved"
                  => ops[i].out = BothSucceeded(ops[i].src, Lookups(ops[i]))
            /\ ops[i].status = "rejected"
                  => /\ Len(ops[i].answers) = 1
                     /\ ~ops[i].answers[1].ok
                     /\ ops[i].code = "POSITIONS_FETCH_FAILED"

\* C12 witness: two positions were fetched, the lookup of the second one
\* failed, and getPositions resolved with the first position alone.
C12_Witness ==
    \E i \in Slots :
        /\ ops[i].op = "getPositions"
        /\ ops[i].status = "resolved"
        /\ Len(ops[i].src) = 2
        /\ ops[i].out = <<Standardized(ops[i].src[1], ops[i].src[1], ops[i].src[1])>>
        /\ ~ops[i].answers[Len(ops[i].answers)].ok

\* the smaller of two natural numbers
Min(a, b) == IF a < b THEN a ELSE b

\* the elements a degrading operation has to return: all of the upstream
\* collection, for getTransactions the first min(limit, N) orders
Expected(o) ==
    IF o.op = "getTransactions"
    THEN [k \in 1..Min(o.arg, Len(o.upstream)) |-> o.upstream[k]]
    ELSE o.upstream

\* C13: getTransactions(limit), getDividends and getQuotes degrade: the
\* result has exactly one entry per upstream element in upstream order (for
\* getTransactions per each of the first min(limit, N) orders), and an
\* element whose instrument lookup failed is present, mapped without
\* instrument data.
C13_DegradingOperationsKeepEveryElement ==
    \A i \in Slots :
        (ops[i].op \in {"getTransactions", "getDividends", "getQuotes"}
         /\ ops[i].status = "resolved")
            => /\ Len(ops[i].out) = Len(Expected(ops[i]))
               /\ Len(Lookups(ops[i])) = Len(Expected(ops[i]))
               /\ \A k \in 1..Len(ops[i].out) :
                     /\ ops[i].out[k].id = Expected(ops[i])[k]
                     /\ ops[i].out[k].instrument =
                           IF Lookups(ops[i])[k].ok
                           THEN instrumentOf(Expected(ops[i])[k])
                           ELSE 0

\* C13 witness: getTransactions with limit 1 over two orders resolved with
\* the first order alone, mapped without its instrument, whose lookup failed.
C13_Witness ==
    \E i \in Slots :
        /\ ops[i].op = "getTransactions"
        /\ ops[i].status = "resolved"
        /\ ops[i].arg = 1
        /\ Len(ops[i].upstream) = 2
        /\ ops[i].out = <<Standardized(ops[i].upstream[1], 0, 0)>>
        /\ ~ops[i].answers[2].ok

\* C14: when the accounts fetch returns zero accounts, getPortfolio rejects
\* with PORTFOLIO_FETCH_FAILED and getBalance with BALANCE_FETCH_FAILED, and
\* getPortfolio sends no portfolio or positions request (the accounts call
\* is the only raw call it made).
C14_NoAccountsRejects ==
    \A i \in Slots :
        (/\ ops[i].op \in {"getPortfolio", "getBalance"}
         /\ Len(ops[i].answers) >= 1
         /\ ops[i].answers[1].ok
         /\ ops[i].upstream = <<>>)
            => /\ ops[i].status = "rejected"
               /\ ops[i].code = IF ops[i].op = "getPortfolio"
                                THEN "PORTFOLIO_FETCH_FAILED"
                                ELSE "BALANCE_FETCH_FAILED"
               /\ Len(ops[i].answers) = 1
               /\ ops[i].stack = <<>>

\* C14 witness: getPortfolio was answered an empty list of accounts and
\* rejected.
C14_Witness ==
    \E i \in Slots :
        /\ ops[i].op = "getPortfolio"
        /\ ops[i].status = "rejected"
        /\ ops[i].answers = <<[call |-> "getAccounts", url |-> 0, ok |-> TRUE]>>
        /\ ops[i].upstream = <<>>

\* the positions of a sequence of standardized positions that are held in
\* account a
RECURSIVE HeldIn(_, _)
HeldIn(positions, a) ==
    IF positions = <<>> THEN <<>>
    ELSE IF accountNumberOf(Head(positions).id) = a
    THEN <<Head(positions)>> \o HeldIn(Tail(positions), a)
    ELSE HeldIn(Tail(positions), a)

\* C16: the portfolio returned by getPortfolio contains exactly the
\* successfully mapped positions of the one account it reports (the first
\* account returned) and no position of any other account of the user,
\* whatever the number of accounts (the brokerage lists the accounts of the
\* user and the positions held in those accounts).
C16_PortfolioHoldsOnlyItsAccount ==
    \A i \in Slots :
        (/\ ops[i].op = "getPortfolio"
         /\ ops[i].status = "resolved"
         /\ \A k \in 1..Len(ops[i].src) :
               \E a \in 1..Len(ops[i].upstream) :
                  accountNumberOf(ops[i].src[k]) = ops[i].upstream[a])
            => /\ ops[i].account = ops[i].upstream[1]
               /\ ops[i].out =
                     HeldIn(BothSucceeded(ops[i].src,
                                          SubSeq(ops[i].answers, 4, Len(ops[i].answers))),
                            ops[i].account)

\* the codes assigned to the public operations of RobinhoodService
Assigned(op) ==
    CASE op = "authenticate" -> {"MFA_REQUIRED", "AUTH_FAILED"}
      [] op = "refreshToken" -> {"TOKEN_REFRESH_FAILED"}
      [] op = "getPortfolio" -> {"PORTFOLIO_FETCH_FAILED"}
      [] op = "getPositions" -> {"POSITIONS_FETCH_FAILED"}
      [] op = "getPosition" -> {"POSITION_FETCH_FAILED"}
      [] op = "getAccounts" -> {"ACCOUNTS_FETCH_FAILED"}
      [] op = "getBalance" -> {"BALANCE_FETCH_FAILED"}
      [] op = "getQuote" -> {"QUOTE_FETCH_FAILED"}
      [] op = "getQuotes" -> {"QUOTES_FETCH_FAILED"}
      [] op = "getTransactions" -> {"TRANSACTIONS_FETCH_FAILED"}
      [] op = "getHistoricalData" -> {"HISTORICAL_DATA_FETCH_FAILED"}
      [] op = "getWatchlists" -> {"WATCHLISTS_FETCH_FAILED"}
      [] op = "getDividends" -> {"DIVIDENDS_FETCH_FAILED"}
      [] OTHER -> {}

\* C15: every public operation of RobinhoodService either resolves or
\* rejects with a StandardizedError whose source is 'robinhood' and whose
\* code is the one assigned to that operation (getPortfolio also when its
\* inner position fetch fails); no raw transport error and no code of
\* another operation reaches the caller.
C15_OwnStandardizedError ==
    \A i \in Slots :
        /\ ops[i].status = "rejected"
              => /\ ops[i].code \in Assigned(ops[i].op)
                 /\ ops[i].source = "robinhood"
        /\ ops[i].status = "resolved" => ops[i].code = "" /\ ops[i].source = ""

\* C15 witness: getPortfolio rejected because its inner position fetch
\* failed.
C15_Witness ==
    \E i \in Slots :
        /\ ops[i].op = "getPortfolio"
        /\ ops[i].status = "rejected"
        /\ Len(ops[i].answers) = 3
        /\ ops[i].answers[3] = [call |-> "getPositions", url |-> 0, ok |-> FALSE]
        /\ ops[i].code = "PORTFOLIO_FETCH_FAILED"

\* C17: no sequence of public operations of RobinhoodService sends a write
\* request: the only POSTs go to the authentication and token-refresh
\* endpoints, every other request is a GET, and the order placement and
\* cancellation calls of the raw layer are never made.
C17_ReadOnly ==
    \A i \in Slots : \A k \in 1..Len(ops[i].stack) :
        LET request == ops[i].stack[k]
        IN /\ request.kind \notin {"placeOrder", "cancelOrder"}
           /\ IF endpointOf(request) \in {"/api-token-auth/", "/oauth/token/"}
              THEN methodOf(request) = "POST"
              ELSE methodOf(request) = "GET"

\* C17 witness: a data operation has a GET of the raw layer awaiting the
\* refresh POST that its 401 started.
C17_Witness ==
    \E i \in Slots :
        /\ ops[i].op = "getTransactions"
        /\ Len(ops[i].stack) = 2
        /\ methodOf(ops[i].stack[1]) = "GET"
        /\ endpointOf(ops[i].stack[1]) = "url"
        /\ methodOf(ops[i].stack[2]) = "POST"
        /\ endpointOf(ops[i].stack[2]) = "/oauth/token/"

\* the numeric fields of the record a mapper function returned
NumericOutputs ==
    IF ev.fn = "mapHistoricalData"
    THEN UNION {{ev.output[k].open, ev.output[k].high, ev.output[k].low,
                 ev.output[k].close} : k \in 1..Len(ev.output)}
    ELSE {ev.output[f] : f \in DOMAIN ev.output}

\* C18: for every mapper function and every input whose numeric string
\* fields are valid decimals, absent/null/empty or unparsable, no numeric
\* field of the standardized record is NaN (valid strings give their value,
\* the others 0).
C18_NoNaN ==
    (ev.type = "mapper" /\ ev.done) => \A x \in NumericOutputs : x.kind # "nan"

\* C19: whenever the denominator of a percent field is 0 (cost basis
\* quantity x averageCost for totalGainLossPercent of a position,
\* previousClose for dayChangePercent of a position and changePercent of a
\* quote, previous equity for dayChangePercent of a portfolio), that percent
\* field is exactly 0.
C19_ZeroDenominatorZeroPercent ==
    (ev.type = "mapper" /\ ev.done) =>
        /\ ev.fn = "mapPosition" =>
              /\ times(ev.output.quantity, ev.output.averageCost) = Num(0)
                    => ev.output.totalGainLossPercent = Num(0)
              /\ parseFloat(orZero(optional(ev.input.quote, "previousClose"))) = Num(0)
                    => ev.output.dayChangePercent = Num(0)
        /\ ev.fn = "mapQuote" =>
              (ev.output.previousClose = Num(0) => ev.output.changePercent = Num(0))
        /\ ev.fn = "mapPortfolio" =>
              (parseFloat(orZero(ev.input.portfolio.lastCoreEquity)) = Num(0)
                  => ev.output.dayChangePercent = Num(0))

\* C19 witness: a position bought at 0 whose price has moved: the gain is
\* not 0, the cost basis is, and the position has been mapped.
C19_Witness ==
    /\ ev.type = "mapper" /\ ev.done /\ ev.fn = "mapPosition"
    /\ ev.output.totalGainLoss.kind = "num"
    /\ ev.output.totalGainLoss.n > 0
    /\ times(ev.output.quantity, ev.output.averageCost) = Num(0)
    /\ ev.output.totalGainLossPercent = Num(0)

\* C20: for every position mapPosition yields marketValue = quantity x
\* currentPrice, totalGainLoss = marketValue - quantity x averageCost and
\* dayChange = quantity x (currentPrice - previousClose); with no quote,
\* currentPrice and marketValue are 0 and totalGainLoss is minus the cost
\* basis.
C20_PositionArithmetic ==
    (ev.type = "mapper" /\ ev.done /\ ev.fn = "mapPosition") =>
        LET out == ev.output
            previousClose == parseFloat(orZero(optional(ev.input.quote, "previousClose")))
        IN /\ out.marketValue = times(out.quantity, out.currentPrice)
           /\ out.totalGainLoss =
                 minus(out.marketValue, times(out.quantity, out.averageCost))
           /\ out.dayChange = times(out.quantity, minus(out.currentPrice, previousClose))
           /\ ~ev.input.quote.defined =>
                 /\ out.currentPrice = Num(0)
                 /\ out.marketValue = Num(0)
                 /\ out.totalGainLoss =
                       minus(Num(0), times(out.quantity, out.averageCost))


\* a mapper call that was given no instrument has returned
WithoutInstrument ==
    /\ ev.type = "mapper" /\ ev.done
    /\ ev.fn \in {"mapPosition", "mapQuote", "mapTransaction", "mapDividend"}
    /\ ev.input.instrument = <<>>

\* C21: mapPosition, mapQuote, mapTransaction and mapDividend called without
\* an instrument do not throw and return the sentinel values: symbol
\* 'UNKNOWN' (the quote's own symbol for mapQuote) and name 'Unknown
\* Instrument' or 'Unknown' where the record has a name.
C21_MissingInstrumentGivesSentinels ==
    WithoutInstrument =>
        /\ ~ev.output.threw
        /\ ev.fn # "mapQuote" => ev.output.symbol = "UNKNOWN"
        /\ ev.fn # "mapDividend" => ev.output.name \in {"Unknown Instrument", "Unknown"}

\* the status the claim's table gives an order state
StatusTable(state) ==
    CASE state \in {"filled", "executed"} -> "completed"
      [] state \in {"cancelled", "canceled"} -> "cancelled"
      [] state \in {"failed", "rejected"} -> "failed"
      [] OTHER -> "pending"

\* C22: the transaction's status is completed for filled and executed,
\* cancelled for cancelled and canceled, failed for failed and rejected, and
\* pending for pending, queued, confirmed, partially_filled and every other
\* state.
C22_OrderStatusTable ==
    (ev.type = "mapper" /\ ev.done /\ ev.fn = "mapTransaction") =>
        ev.output.status = StatusTable(ev.input.order.state)

C22_Witness ==
    /\ ev.type = "mapper" /\ ev.done /\ ev.fn = "mapTransaction"
    /\ ev.input.order.state = "unconfirmed"
    /\ ev.output.status = "pending"

\* C23: every record the mapper returns carries the source tag 'robinhood'
\* and at least one timestamp field.
C23_SourceAndTimestamp ==
    (ev.type = "mapper" /\ ev.done /\ ~ev.output.threw) =>
        /\ ev.output.source = "robinhood"
        /\ ev.output.timestamps # {}


\* a position of o.src references the instrument of the symbol o.arg
Held(o) == \E k \in 1..Len(o.src) : instrumentOf(o.src[k]) = o.arg

\* C24: getPosition(symbol) resolves with null, having sent no quote
\* request, when the instrument is found but no held position references it;
\* resolves with the mapped position when one does; and rejects with
\* POSITION_FETCH_FAILED exactly when the positions, instrument or quote
\* lookup failed.
C24_GetPositionOutcomes ==
    \A i \in Slots :
        ops[i].op = "getPosition" =>
            /\ \A k \in 1..Len(ops[i].answers) :
                  ~ops[i].answers[k].ok
                     => /\ k = Len(ops[i].answers)
                        /\ ops[i].status = "rejected"
            /\ ops[i].status = "rejected"
                  => /\ ops[i].code = "POSITION_FETCH_FAILED"
                     /\ ~ops[i].answers[Len(ops[i].answers)].ok
            /\ ops[i].status = "resolved"
                  => IF Held(ops[i])
                     THEN /\ ~ops[i].null
                          /\ [k \in 1..3 |-> ops[i].answers[k].call]
                                = <<"getPositions", "getInstrumentBySymbol", "getQuote">>
                          /\ Len(ops[i].answers) = 3
                          /\ ops[i].out = <<Standardized(ops[i].arg, ops[i].arg, ops[i].arg)>>
                     ELSE /\ ops[i].null
                          /\ ops[i].out = <<>>
                          /\ Len(ops[i].answers) = 2
                          /\ ops[i].answers[2].call = "getInstrumentBySymbol"
                          /\ ops[i].stack = <<>>

\* C24 witness: positions are held, none of them in the instrument asked
\* for, and getPosition resolved with null after two lookups.
C24_Witness ==
    \E i \in Slots :
        /\ ops[i].op = "getPosition"
        /\ ops[i].status = "resolved"
        /\ ops[i].src # <<>>
        /\ ops[i].null
        /\ Len(ops[i].answers) = 2


\* C25: refreshes are not de-duplicated: a 401 answer to a request that was
\* not yet retried, while a refresh token is held, puts a refresh request of
\* that operation's own on the wire, whatever the other operation in flight
\* is doing; two requests answered 401 give two refresh requests.
C25_EachUnauthorizedStartsItsOwnRefresh ==
    [][\A i \in Slots :
          (/\ ev'.type = "response" /\ ev'.slot = i /\ ev'.status = Unauthorized
           /\ ops[i].status = "inflight"
           /\ ~Top(i).retry
           /\ hasRefreshToken(authTokens))
             => /\ ops'[i].status = "inflight"
                /\ Len(ops'[i].stack) = Len(ops[i].stack) + 1
                /\ ops'[i].stack[Len(ops'[i].stack)].kind = "refresh"
                /\ ops'[i].wire = ops[i].wire + 1
                /\ ops'[i].refreshes = ops[i].refreshes + 1]_vars

\* C25 witness: two GETs are in flight at the same time, each was answered
\* 401, and each has a refresh request of its own on the wire.
C25_Witness ==
    \A i \in Slots :
        /\ ops[i].op = "get"
        /\ ops[i].status = "inflight"
        /\ Len(ops[i].stack) = 2
        /\ Top(i).kind = "refresh"
        /\ ops[i].refreshes = 1


\* the lookup the operation o awaits is one whose failure o absorbs: an
\* auxiliary lookup of a collection operation (or of the position fetch
\* inside getPortfolio), or a lookup of a getQuote that has already rejected
Absorbs(o) ==
    \/ o.op \in {"getPositions", "getTransactions", "getDividends", "getQuotes"}
       /\ o.answers # <<>>
    \/ o.op = "getPortfolio" /\ Len(o.answers) >= 3
    \/ o.op = "getQuote" /\ o.join = "void"

Done(i) == ops[i].status \in {"resolved", "rejected"}

\* C27: getQuote has the quote lookup and the instrument lookup in flight
\* together and, in whichever order they are answered, resolves only when
\* both succeeded, with the quote mapped with its instrument, and rejects
\* with QUOTE_FETCH_FAILED as soon as one of them fails; it never falls back
\* to a quote mapped without the instrument and settles once.
C27_GetQuoteNeedsBothLookups ==
    \A i \in Slots :
        ops[i].op = "getQuote" =>
            /\ (ops[i].join = "both" /\ ops[i].status = "inflight")
                  => \E j \in Slots \ {i} :
                        /\ ops[j].op = "getQuote" /\ ops[j].join = "both"
                        /\ ops[j].status = "inflight"
                        /\ {ops[i].pc, ops[j].pc} = {"getQuote", "getInstrumentBySymbol"}
            /\ ops[i].status = "resolved"
                  => /\ ops[i].join = "last"
                     /\ Len(ops[i].answers) = 1
                     /\ ops[i].answers[1].ok
                     /\ ops[i].out = <<Standardized(ops[i].arg, ops[i].arg, ops[i].arg)>>
            /\ ops[i].status = "rejected"
                  => /\ ops[i].code = "QUOTE_FETCH_FAILED"
                     /\ ops[i].join # "void"
                     /\ ~ops[i].answers[1].ok
            /\ (ops[i].answers # <<>> /\ ~ops[i].answers[1].ok)
                  => ops[i].status = "rejected"
            /\ ops[i].join = "void" => ops[i].status = "inflight"
            /\ Done(i) => \A j \in Slots \ {i} : ~Done(j)

\* C27 witness: the instrument lookup was answered first, the quote lookup
\* second, and getQuote resolved.
C27_Witness ==
    \E i \in Slots :
        /\ ops[i].op = "getQuote"
        /\ ops[i].status = "resolved"
        /\ ops[i].answers[1].call = "getQuote"


\* C28: one caller request costs a bounded number of HTTP exchanges,
\* whatever the upstream answers: at most one refresh request and at most
\* two sends of the request itself, three exchanges in all.
C28_BoundedExchanges ==
    \A i \in Slots :
        ops[i].op \in {"get", "authenticate", "refreshToken"}
            => /\ ops[i].refreshes <= 1
               /\ ops[i].sends <= 2
               /\ ops[i].wire <= 3
               /\ Len(ops[i].stack) <= 2


\* the TokenSet the client holds was stored by the refresh of the operation
\* in slot j: an explicit refreshToken() that has just resolved, or the
\* refresh of a 401 handler whose request is being replayed
StoredByRefreshOf(j) ==
    /\ hasRefreshToken(authTokens)
    /\ \/ /\ ops[j].op = "refreshToken"
          /\ ops[j].status = "resolved"
          /\ ops[j].ret = authTokens
       \/ /\ ops[j].status = "inflight"
          /\ ops[j].refreshOK
          /\ Top(j).hdr = authTokens.accessToken

\* C29: a refresh that fails clears only the TokenSet it was started with:
\* when the refresh request of a 401 handler fails while the client holds a
\* TokenSet that the successful refresh of another operation has stored in
\* the meantime, that TokenSet is kept.
C29_FailedRefreshKeepsNewerTokenSet ==
    [][\A i \in Slots :
          (/\ Answered(i)
           /\ Len(ops[i].stack) >= 2
           /\ Top(i).kind = "refresh"
           /\ ops'[i].status = "rejected"
           /\ Top(i).body # authTokens.refreshToken
           /\ \E j \in Slots \ {i} : StoredByRefreshOf(j))
             => authTokens' = authTokens]_vars


\* the collection operations that absorb failures of their auxiliary lookups
Collections == {"getPositions", "getTransactions", "getDividends", "getQuotes"}

\* C30: the answer to an auxiliary lookup of a collection operation that
\* does not make the operation reject leaves a client that holds tokens
\* holding tokens: isAuthenticated() stays true while the operation absorbs
\* the failures of its lookups.
C30_AbsorbedFailureKeepsTokens ==
    [][\A i \in Slots :
          (/\ Answered(i)
           /\ ops[i].op \in Collections
           /\ ops[i].answers # <<>>
           /\ isAuthenticated(authTokens)
           /\ ops'[i].status # "rejected")
             => /\ authTokens'.defined
                /\ isAuthenticated(authTokens')]_vars

====
